---- MODULE Spec2Model ----
(***************************************************************************)
(* nussl/ml/train/trainer.py: the train engine, the optional validation    *)
(* engine, their bookkeeping handlers, the validate_and_checkpoint handler *)
(* on the train engine's EPOCH_COMPLETED, and the two reporters on         *)
(* VALIDATION_COMPLETED.                                                   *)
(*                                                                         *)
(* Representation.  A Python dict is a function whose DOMAIN is its key    *)
(* set.  An Epoch History key f"train/{key}" is the pair <<"train", key>>. *)
(* np.mean of a list is kept exact as Scale * sum / len (Scale is a        *)
(* multiple of every list length that occurs).  engine.state.iter_history  *)
(* [key] is a list OBJECT and past_iter_history[key] holds references to   *)
(* such objects (line 121 appends the list itself, not a copy): the lists  *)
(* created for a key live in st.lists[key], and iter_history[key] and the  *)
(* entries of past_iter_history[key] are indices into it.                  *)
(***************************************************************************)
EXTENDS Integers, Sequences, FiniteSets, TLC

\* ---------------------------------------------------------------- bounds
\* max_epochs handed to trainer.run
MaxEpochs == 3
\* the validation step returns losses from 1..MaxVal
MaxVal == 2

\* datasets handed to cache_dataset have 1..MaxLen items
MaxLen == 6

\* the train engine is run at most MaxRuns times
MaxRuns == 2

VARIABLES
    cfg,          \* what the session was set up with (fixed during a run)
    pc,           \* where the train engine's run is
    trainer,      \* trainer.state
    validator,    \* validator.state
    is_best,      \* local of validate_and_checkpoint
    output_paths, \* local of validate_and_checkpoint
    metadata,     \* local of validate_and_checkpoint
    path_idx,     \* position of the loop of line 235 in output_paths
    files,        \* the checkpoints folder: file name -> content
    save_log,     \* every _model.save call so far: <<slot, epoch>>
    saved_model_path, \* trainer.state.saved_model_path ("" = unset)
    events,       \* the events fired so far, in order: <<engine, event>>
    produced,     \* the keys the step functions returned: <<engine, epoch, key>>
    stdout,       \* the epoch summaries logged by log_epoch_to_stdout
    tensorboard,  \* the scalars written by log_to_tensorboard
    error,        \* the exception that ended the run ("" = none)
    returned,     \* what the step functions returned: <<engine, epoch, output>>
    cache         \* cache_dataset: its engine, its log and the dataset's flag

vars == <<cfg, pc, trainer, validator, is_best, output_paths, metadata,
          path_idx, files, save_log, saved_model_path, events, produced,
          stdout, tensorboard, error, returned, cache>>

\* ------------------------------------------------------------- helpers
EmptyDict == [k \in {} |-> 0]

Has(d, k) == k \in DOMAIN d

Get(d, k, default) == IF k \in DOMAIN d THEN d[k] ELSE default

Last(s) == s[Len(s)]

Range(s) == {s[i] : i \in 1..Len(s)}

RECURSIVE Sum(_)
Sum(s) == IF s = <<>> THEN 0 ELSE s[1] + Sum(Tail(s))

RECURSIVE Fact(_)
Fact(n) == IF n <= 1 THEN 1 ELSE n * Fact(n - 1)

\* ----------------------------------------------------------- datasets
\* A batch is a dict of entries; an entry is a tensor (with a dtype, on a
\* device) or anything else.
Tensor(dtype) == [tensor |-> TRUE, dtype |-> dtype, device |-> "cpu"]

Other(value) == [tensor |-> FALSE, value |-> value]

TrainData ==
    << [mix |-> Tensor("float64"), labels |-> Tensor("int64"),
        name |-> Other("a.wav")],
       [mix |-> Tensor("float32"), name |-> Other("b.wav")] >>

ValData == << [mix |-> Tensor("int64"), name |-> Other("c.wav")] >>

\* engine.state.epoch_length = len(data)
EpochLength == Len(TrainData)

ValLength == Len(ValData)

\* every list that is averaged has 1..max(EpochLength, ValLength) elements
Scale == Fact(IF EpochLength >= ValLength THEN EpochLength ELSE ValLength)

\* np.mean(values), lines 195 and 207
MeanOfLast(values) == Scale * Last(values)

Mean(values) == (Scale * Sum(values)) \div Len(values)

\* min(trainer.state.epoch_history['validation/loss']), line 201
Min(values) == CHOOSE x \in Range(values) : \A y \in Range(values) : x <= y

\* -------------------------------------------------------------- inputs
\* A step function returns a mapping with at least one metric.  The train
\* step reports the iteration number as its loss (so no two iterations
\* report the same value) next to a second metric, or the second metric
\* alone; the validation step reports one metric.
TrainOutputs(st, may_omit_loss) ==
    {("loss" :> st.iteration) @@ ("aux" :> 1)}
        \cup (IF may_omit_loss THEN {("aux" :> 1)} ELSE {})

ValOutputs(losses, may_omit_loss) ==
    {("loss" :> v) : v \in losses}
        \cup (IF may_omit_loss THEN {("aux" :> 1)} ELSE {})

TRAIN == "train"
VALIDATION == "validation"
VALIDATION_LOSS == <<VALIDATION, "loss">>
TRAIN_LOSS == <<TRAIN, "loss">>

LATEST == "latest"
BEST == "best"

\* ------------------------------------------------- bookkeeping handlers
\* ignite's State of an engine that has not run
NewState(max_epochs, epoch_length) ==
    [epoch |-> 0, iteration |-> 0,
     max_epochs |-> max_epochs, epoch_length |-> epoch_length,
     output |-> EmptyDict, batch |-> EmptyDict,
     epoch_history |-> EmptyDict, iter_history |-> EmptyDict,
     past_iter_history |-> EmptyDict, lists |-> EmptyDict]

\* the device of line 95 kept whatever line 96 answers
ResolveDeviceNoFallback(device, cuda_available) == device

\* lines 95-97
ResolveDevice(device, cuda_available) ==
    IF ~cuda_available THEN "cpu" ELSE device

\* lines 99-104
prepare_batch(st, device) ==
    [st EXCEPT !.batch =
        [key \in DOMAIN st.batch |->
            IF st.batch[key].tensor
            THEN [st.batch[key] EXCEPT !.dtype = "float32", !.device = device]
            ELSE st.batch[key]]]

\* book_keeping without line 108
book_keeping_keeps_epoch_history(st) ==
    [st EXCEPT !.iter_history = EmptyDict,
               !.past_iter_history = EmptyDict,
               !.lists = EmptyDict]

\* lines 107-110
book_keeping(st) ==
    [st EXCEPT !.epoch_history = EmptyDict,
               !.iter_history = EmptyDict,
               !.past_iter_history = EmptyDict,
               !.lists = EmptyDict]

\* lines 125-126
clear_iter_history_noop(st) == st

clear_iter_history(st) == [st EXCEPT !.iter_history = EmptyDict]

\* the list iter_history[key] refers to, and the one an entry of
\* past_iter_history[key] refers to
IterList(st, key) == st.lists[key][st.iter_history[key]]

PastList(st, key, i) == st.lists[key][st.past_iter_history[key][i]]

\* the append of lines 120-122 moved under the guard of line 116: an entry
\* is added to past_iter_history[key] only when the key is new
add_to_iter_history_once(st) ==
    LET out == st.output
        lists2 == [key \in DOMAIN st.lists \cup DOMAIN out |->
            IF ~Has(out, key) THEN st.lists[key]
            ELSE IF Has(st.iter_history, key)
                 THEN [st.lists[key] EXCEPT
                          ![st.iter_history[key]] = Append(@, out[key])]
                 ELSE Append(Get(st.lists, key, <<>>), <<out[key]>>)]
        iter2 == [key \in DOMAIN st.iter_history \cup DOMAIN out |->
            IF Has(st.iter_history, key) THEN st.iter_history[key]
            ELSE Len(lists2[key])]
        past2 == [key \in DOMAIN st.past_iter_history \cup DOMAIN out |->
            IF Has(st.past_iter_history, key) THEN st.past_iter_history[key]
            ELSE <<iter2[key]>>]
    IN  [st EXCEPT !.lists = lists2,
                   !.iter_history = iter2,
                   !.past_iter_history = past2]

\* lines 112-123
add_to_iter_history(st) ==
    LET out == st.output
        lists2 == [key \in DOMAIN st.lists \cup DOMAIN out |->
            IF ~Has(out, key) THEN st.lists[key]
            ELSE IF Has(st.iter_history, key)
                 THEN [st.lists[key] EXCEPT
                          ![st.iter_history[key]] = Append(@, out[key])]
                 ELSE Append(Get(st.lists, key, <<>>), <<out[key]>>)]
        iter2 == [key \in DOMAIN st.iter_history \cup DOMAIN out |->
            IF Has(st.iter_history, key) THEN st.iter_history[key]
            ELSE Len(lists2[key])]
        past2 == [key \in DOMAIN st.past_iter_history \cup DOMAIN out |->
            IF ~Has(out, key) THEN st.past_iter_history[key]
            ELSE Append(Get(st.past_iter_history, key, <<>>), iter2[key])]
    IN  [st EXCEPT !.lists = lists2,
                   !.iter_history = iter2,
                   !.past_iter_history = past2]

\* ------------------------------------------- validate_and_checkpoint
\* the append without the `if _key not in` guard: the list starts afresh
AppendMeansReset(epoch_history, prefix, st) ==
    [k \in DOMAIN epoch_history
            \cup {<<prefix, key>> : key \in DOMAIN st.iter_history} |->
        IF k[1] = prefix /\ Has(st.iter_history, k[2])
        THEN <<Mean(st.lists[k[2]][st.iter_history[k[2]]])>>
        ELSE epoch_history[k]]

\* lines 191-197 (prefix "validation", st the validator's state) and
\* lines 203-209 (prefix "train", st the trainer's state)
AppendMeans(epoch_history, prefix, st) ==
    [k \in DOMAIN epoch_history
            \cup {<<prefix, key>> : key \in DOMAIN st.iter_history} |->
        IF k[1] = prefix /\ Has(st.iter_history, k[2])
        THEN Append(Get(epoch_history, k, <<>>), Mean(IterList(st, k[2])))
        ELSE epoch_history[k]]

\* is_best with the comparison turned round (max for min)
IsBestMax(epoch_history) ==
    IF Has(epoch_history, VALIDATION_LOSS)
    THEN \A i \in 1..Len(epoch_history[VALIDATION_LOSS]) :
            epoch_history[VALIDATION_LOSS][i]
                <= Last(epoch_history[VALIDATION_LOSS])
    ELSE TRUE

\* is_best with a tie not counting: strictly below every earlier value
IsBestStrict(epoch_history) ==
    IF Has(epoch_history, VALIDATION_LOSS)
    THEN \A i \in 1..(Len(epoch_history[VALIDATION_LOSS]) - 1) :
            Last(epoch_history[VALIDATION_LOSS])
                < epoch_history[VALIDATION_LOSS][i]
    ELSE TRUE

\* lines 199-201 (is_best is True when the key is absent, line 187)
IsBest(epoch_history) ==
    IF Has(epoch_history, VALIDATION_LOSS)
    THEN Last(epoch_history[VALIDATION_LOSS])
            = Min(epoch_history[VALIDATION_LOSS])
    ELSE TRUE

\* the paths with the test of line 213 inverted
OutputPathsInverted(best) == IF best THEN <<LATEST>> ELSE <<LATEST, BEST>>

\* lines 211-216
OutputPaths(best) == IF best THEN <<LATEST, BEST>> ELSE <<LATEST>>

\* the metadata assembled before the appends of lines 191-209
MetadataBeforeAppends(st) ==
    [epoch |-> st.epoch, epoch_length |-> st.epoch_length,
     max_epochs |-> st.max_epochs, output |-> st.output,
     epoch_history |->
        [k \in {q \in DOMAIN st.epoch_history :
                    Len(st.epoch_history[q]) > 1} |->
            SubSeq(st.epoch_history[k], 1, Len(st.epoch_history[k]) - 1)]]

\* lines 218-233: the run-state snapshot and the Epoch History (the dataset
\* descriptor, metrics and seed never change and are left out)
Metadata(st) ==
    [epoch |-> st.epoch, epoch_length |-> st.epoch_length,
     max_epochs |-> st.max_epochs, output |-> st.output,
     epoch_history |-> st.epoch_history]

\* ------------------------------------------------------ the reporters
NOT_AVAILABLE == <<>>

\* lines 301-305
ValidationLossText(epoch_history) ==
    IF Has(epoch_history, VALIDATION_LOSS)
    THEN <<Last(epoch_history[VALIDATION_LOSS])>>
    ELSE NOT_AVAILABLE

\* line 307 is outside the try of lines 301-305: a missing key raises
StdoutRaises(epoch_history) == ~Has(epoch_history, TRAIN_LOSS)

\* lines 298-322
Summary(st) ==
    [epoch_number |-> st.epoch, total_epochs |-> st.max_epochs,
     train_loss |-> Last(st.epoch_history[TRAIN_LOSS]),
     validation_loss |-> ValidationLossText(st.epoch_history)]

\* lines 340-342: one add_scalar per key
Scalars(st) ==
    {<<k, Last(st.epoch_history[k]), st.epoch>> : k \in DOMAIN st.epoch_history}

\* --------------------------------------------------------------- Init
\* A session: which engines and reporters were set up, what was handed to
\* trainer.run, and what the two step functions may return.
GeneralSessions ==
    [validator : BOOLEAN, stdout : BOOLEAN, max_epochs : {MaxEpochs},
     device : {"cuda"}, cuda_available : {FALSE},
     train_may_omit_loss : {TRUE},
     val_losses : {1..MaxVal}, val_may_omit_loss : {TRUE}]

\* Scenario C of the specification, in tenths: five epochs with a validator
\* whose losses come from the values of [0.9, 0.5, 0.6, 0.4, 0.4]
ScenarioC == <<9, 5, 6, 4, 4>>

ScenarioSessions ==
    [validator : {TRUE}, stdout : {TRUE}, max_epochs : {Len(ScenarioC)},
     device : {"cuda"}, cuda_available : {FALSE},
     train_may_omit_loss : {FALSE},
     val_losses : {Range(ScenarioC)}, val_may_omit_loss : {FALSE}]

\* One-epoch sessions over the device that was asked for and what
\* torch.cuda.is_available() answers (lines 95-97)
DeviceSessions ==
    [validator : {TRUE}, stdout : {FALSE}, max_epochs : {1},
     device : {"cpu", "cuda"}, cuda_available : BOOLEAN,
     train_may_omit_loss : {FALSE},
     val_losses : {{1}}, val_may_omit_loss : {FALSE}]

Sessions == GeneralSessions \cup ScenarioSessions \cup DeviceSessions

\* cache_dataset has not been called
CacheIdle ==
    [pc |-> "idle", length |-> 0, tenths |-> 0, log_frequency |-> 0,
     iteration |-> 0, visited |-> <<>>, logged |-> <<>>,
     cache_populated |-> FALSE, error |-> ""]

InitSession(sessions) ==
    /\ cfg \in sessions
    /\ pc = "created"
    /\ trainer = NewState(cfg.max_epochs, EpochLength)
    /\ validator = NewState(1, ValLength)
    /\ is_best = TRUE
    /\ output_paths = <<>>
    /\ metadata = Metadata(trainer)
    /\ path_idx = 1
    /\ files = EmptyDict
    /\ save_log = <<>>
    /\ saved_model_path = ""
    /\ events = <<>>
    /\ produced = {}
    /\ stdout = <<>>
    /\ tensorboard = {}
    /\ error = ""
    /\ returned = <<>>

Init == InitSession(Sessions) /\ cache = CacheIdle

Device == ResolveDevice(cfg.device, cfg.cuda_available)

handler_locals == <<is_best, output_paths, metadata, path_idx>>
outside == <<files, save_log, saved_model_path, stdout, tensorboard>>

Fire(engine, event) == events' = Append(events, <<engine, event>>)

\* how many times x is in seq
Count(seq, x) == Cardinality({i \in 1..Len(seq) : seq[i] = x})

\* --------------------------------------------------- the train engine
\* trainer.run on an engine that is new or done: the counters start again,
\* what the handlers have stored in engine.state stays until they replace it
Restarted(st, max_epochs, epoch_length) ==
    [st EXCEPT !.epoch = 0, !.iteration = 0,
               !.max_epochs = max_epochs, !.epoch_length = epoch_length]

\* trainer.run(train_data, max_epochs): STARTED -> book_keeping (line 131)
TrainStarted ==
    /\ pc = "created"
    /\ trainer' = book_keeping(Restarted(trainer, cfg.max_epochs, EpochLength))
    /\ Fire(TRAIN, "started")
    /\ pc' = "epoch"
    /\ UNCHANGED <<cfg, cache, validator, handler_locals, outside, produced, returned, error>>

\* EPOCH_STARTED -> clear_iter_history (line 135)
TrainEpochStarted ==
    /\ pc = "epoch"
    /\ trainer' = clear_iter_history([trainer EXCEPT !.epoch = @ + 1])
    /\ Fire(TRAIN, "epoch_started")
    /\ pc' = "iteration"
    /\ UNCHANGED <<cfg, cache, validator, handler_locals, outside, produced, returned, error>>

\* ITERATION_STARTED -> prepare_batch (line 129)
TrainIterationStarted ==
    /\ pc = "iteration"
    /\ trainer' = prepare_batch(
          [trainer EXCEPT !.iteration = @ + 1,
                          !.batch = TrainData[
                              trainer.iteration
                                  - (trainer.epoch - 1) * EpochLength + 1]],
          Device)
    /\ Fire(TRAIN, "iteration_started")
    /\ pc' = "step"
    /\ UNCHANGED <<cfg, cache, validator, handler_locals, outside, produced, returned, error>>

\* train_func returns; ITERATION_COMPLETED -> add_to_iter_history (line 133)
TrainIteration ==
    /\ pc = "step"
    /\ \E out \in TrainOutputs(trainer, cfg.train_may_omit_loss) :
        /\ trainer' = add_to_iter_history([trainer EXCEPT !.output = out])
        /\ produced' = produced
              \cup {<<TRAIN, trainer.epoch, key>> : key \in DOMAIN out}
        /\ returned' = Append(returned, <<TRAIN, trainer.epoch, out>>)
    /\ Fire(TRAIN, "iteration_completed")
    /\ pc' = IF trainer.iteration = trainer.epoch * trainer.epoch_length
             THEN "epoch_completed" ELSE "iteration"
    /\ UNCHANGED <<cfg, cache, validator, handler_locals, outside, error>>

\* the error swallowed: the epoch is closed as if the batch had been skipped
TrainStepRaisesSwallowed ==
    /\ pc = "step"
    /\ error' = "StepFailure"
    /\ pc' = "epoch_completed"
    /\ UNCHANGED <<cfg, cache, trainer, validator, handler_locals, outside, events,
                   produced, returned>>

\* train_func raises: nothing catches it, trainer.run ends with the error
TrainStepRaises ==
    /\ pc = "step"
    /\ error' = "StepFailure"
    /\ pc' = "failed"
    /\ UNCHANGED <<cfg, cache, trainer, validator, handler_locals, outside, events,
                   produced, returned>>

\* the handler with the validator never run
TrainEpochCompletedNoValidation ==
    /\ pc = "epoch_completed"
    /\ events' = events \o <<<<TRAIN, "epoch_completed">>,
                             <<TRAIN, "validation_started">>>>
    /\ is_best' = TRUE
    /\ pc' = "merge"
    /\ UNCHANGED <<cfg, cache, trainer, validator, output_paths, metadata, path_idx,
                   outside, produced, returned, error>>

\* EPOCH_COMPLETED -> validate_and_checkpoint, lines 183-189
TrainEpochCompleted ==
    /\ pc = "epoch_completed"
    /\ events' = events \o <<<<TRAIN, "epoch_completed">>,
                             <<TRAIN, "validation_started">>>>
    /\ is_best' = TRUE
    /\ pc' = IF cfg.validator THEN "v_created" ELSE "merge"
    /\ UNCHANGED <<cfg, cache, trainer, validator, output_paths, metadata, path_idx,
                   outside, produced, returned, error>>

\* ---------------------------- validator.run(val_data), line 189
\* STARTED -> book_keeping (line 141), on a fresh State
ValStarted ==
    /\ pc = "v_created"
    /\ validator' = book_keeping(NewState(1, ValLength))
    /\ Fire(VALIDATION, "started")
    /\ pc' = "v_epoch"
    /\ UNCHANGED <<cfg, cache, trainer, handler_locals, outside, produced, returned, error>>

\* EPOCH_STARTED -> clear_iter_history (line 145)
ValEpochStarted ==
    /\ pc = "v_epoch"
    /\ validator' = clear_iter_history([validator EXCEPT !.epoch = @ + 1])
    /\ Fire(VALIDATION, "epoch_started")
    /\ pc' = "v_iteration"
    /\ UNCHANGED <<cfg, cache, trainer, handler_locals, outside, produced, returned, error>>

\* ITERATION_STARTED -> prepare_batch (line 139)
ValIterationStarted ==
    /\ pc = "v_iteration"
    /\ validator' = prepare_batch(
          [validator EXCEPT !.iteration = @ + 1,
                            !.batch = ValData[validator.iteration + 1]],
          Device)
    /\ Fire(VALIDATION, "iteration_started")
    /\ pc' = "v_step"
    /\ UNCHANGED <<cfg, cache, trainer, handler_locals, outside, produced, returned, error>>

\* val_func returns; ITERATION_COMPLETED -> add_to_iter_history (line 143)
ValIteration ==
    /\ pc = "v_step"
    /\ \E out \in ValOutputs(cfg.val_losses, cfg.val_may_omit_loss) :
        /\ validator' = add_to_iter_history([validator EXCEPT !.output = out])
        /\ produced' = produced
              \cup {<<VALIDATION, trainer.epoch, key>> : key \in DOMAIN out}
        /\ returned' = Append(returned, <<VALIDATION, trainer.epoch, out>>)
    /\ Fire(VALIDATION, "iteration_completed")
    /\ pc' = IF validator.iteration = validator.epoch * validator.epoch_length
             THEN "v_epoch_completed" ELSE "v_iteration"
    /\ UNCHANGED <<cfg, cache, trainer, handler_locals, outside, error>>

\* the validator's EPOCH_COMPLETED and COMPLETED (no handlers); run returns
ValCompleted ==
    /\ pc = "v_epoch_completed"
    /\ events' = events \o <<<<VALIDATION, "epoch_completed">>,
                             <<VALIDATION, "completed">>>>
    /\ pc' = "merge"
    /\ UNCHANGED <<cfg, cache, trainer, validator, handler_locals, outside, produced, returned,
                   error>>

\* ---------------------- validate_and_checkpoint, lines 191-233
MergeHistories ==
    /\ pc = "merge"
    /\ LET h1 == IF cfg.validator
                 THEN AppendMeans(trainer.epoch_history, VALIDATION, validator)
                 ELSE trainer.epoch_history
           best == IF cfg.validator THEN IsBest(h1) ELSE is_best
           h2 == AppendMeans(h1, TRAIN, trainer)
       IN  /\ trainer' = [trainer EXCEPT !.epoch_history = h2]
           /\ is_best' = best
           /\ output_paths' = OutputPaths(best)
           /\ metadata' = Metadata(trainer')
    /\ path_idx' = 1
    /\ pc' = "save_model"
    /\ UNCHANGED <<cfg, cache, validator, outside, events, produced, returned, error>>

\* What a write leaves under a path: the weights (the model after so many
\* optimisation steps) with the metadata, or the optimizer's state; `complete`
\* is FALSE for a file whose write was cut short.
ModelFile(st, meta, complete) ==
    [written |-> st.epoch, weights |-> st.iteration, metadata |-> meta,
     complete |-> complete]

OptimizerFile(st, complete) ==
    [written |-> st.epoch, state |-> st.iteration, complete |-> complete]

\* What a write that raised an I/O error leaves under `path`: the path
\* untouched (the error came before the file was opened) or a cut-short file
\* (it came after).
AfterFailedWrite(path, cut_short) ==
    {files, (path :> cut_short) @@ files}

\* line 242: _model.save(_path, {'metadata': metadata})
SaveModel ==
    /\ pc = "save_model"
    /\ LET slot == output_paths[path_idx]
       IN  /\ files' = (<<slot, "model">> :> ModelFile(trainer, metadata, TRUE))
                       @@ files
           /\ save_log' = Append(save_log, <<slot, trainer.epoch>>)
    /\ pc' = "save_optimizer"
    /\ UNCHANGED <<cfg, cache, trainer, validator, handler_locals, saved_model_path,
                   stdout, tensorboard, events, produced, returned, error>>

\* lines 243-244: torch.save(optimizer.state_dict(), ...); next _path
SaveOptimizer ==
    /\ pc = "save_optimizer"
    /\ LET slot == output_paths[path_idx]
       IN  files' = (<<slot, "optimizer">> :> OptimizerFile(trainer, TRUE))
                    @@ files
    /\ path_idx' = path_idx + 1
    /\ pc' = IF path_idx = Len(output_paths) THEN "finish" ELSE "save_model"
    /\ UNCHANGED <<cfg, cache, trainer, validator, is_best, output_paths, metadata,
                   save_log, saved_model_path, stdout, tensorboard, events,
                   produced, returned, error>>

\* the I/O error of line 242 caught and passed over
SaveModelFailsSwallowed ==
    /\ pc = "save_model"
    /\ files' \in AfterFailedWrite(<<output_paths[path_idx], "model">>,
                                   ModelFile(trainer, metadata, FALSE))
    /\ error' = "IOError"
    /\ pc' = "save_optimizer"
    /\ UNCHANGED <<cfg, cache, trainer, validator, handler_locals, save_log,
                   saved_model_path, stdout, tensorboard, events, produced,
                   returned>>

\* line 242 raises an I/O error: nothing catches it, the run ends
SaveModelFails ==
    /\ pc = "save_model"
    /\ files' \in AfterFailedWrite(<<output_paths[path_idx], "model">>,
                                   ModelFile(trainer, metadata, FALSE))
    /\ error' = "IOError"
    /\ pc' = "failed"
    /\ UNCHANGED <<cfg, cache, trainer, validator, handler_locals, save_log,
                   saved_model_path, stdout, tensorboard, events, produced,
                   returned>>

\* lines 243-244 raise an I/O error: nothing catches it, the run ends
SaveOptimizerFails ==
    /\ pc = "save_optimizer"
    /\ files' \in AfterFailedWrite(<<output_paths[path_idx], "optimizer">>,
                                   OptimizerFile(trainer, FALSE))
    /\ error' = "IOError"
    /\ pc' = "failed"
    /\ UNCHANGED <<cfg, cache, trainer, validator, handler_locals, save_log,
                   saved_model_path, stdout, tensorboard, events, produced,
                   returned>>

\* lines 246-248, then the handlers on VALIDATION_COMPLETED in the order
\* they were added: log_epoch_to_stdout (289-324), log_to_tensorboard
\* (336-342).  ignite then starts the next epoch or fires COMPLETED.
ValidationCompleted ==
    /\ pc = "finish"
    /\ saved_model_path' = Last(output_paths)
    /\ Fire(TRAIN, "validation_completed")
    /\ IF cfg.stdout /\ StdoutRaises(trainer.epoch_history)
       THEN /\ error' = "KeyError"
            /\ pc' = "failed"
            /\ UNCHANGED <<stdout, tensorboard>>
       ELSE /\ stdout' = IF cfg.stdout THEN Append(stdout, Summary(trainer))
                         ELSE stdout
            /\ tensorboard' = tensorboard \cup Scalars(trainer)
            /\ pc' = IF trainer.epoch < trainer.max_epochs
                     THEN "epoch" ELSE "completed"
            /\ UNCHANGED error
    /\ UNCHANGED <<cfg, cache, trainer, validator, handler_locals, files, save_log,
                   produced, returned>>

\* COMPLETED; trainer.run returns
TrainCompleted ==
    /\ pc = "completed"
    /\ Fire(TRAIN, "completed")
    /\ pc' = "done"
    /\ UNCHANGED <<cfg, cache, trainer, validator, handler_locals, outside, produced, returned,
                   error>>

Next ==
    \/ TrainStarted
    \/ TrainEpochStarted
    \/ TrainIterationStarted
    \/ TrainIteration
    \/ TrainStepRaises
    \/ TrainEpochCompleted
    \/ ValStarted
    \/ ValEpochStarted
    \/ ValIterationStarted
    \/ ValIteration
    \/ ValCompleted
    \/ MergeHistories
    \/ SaveModel
    \/ SaveOptimizer
    \/ SaveModelFails
    \/ SaveOptimizerFails
    \/ ValidationCompleted
    \/ TrainCompleted

Spec == Init /\ [][Next]_vars

\* ----------------------------------------------------- a second run
\* Sessions in which trainer.run is called again once a run has completed:
\* two epochs a run, with a validator
RerunSessions ==
    [validator : {TRUE}, stdout : {FALSE}, max_epochs : {2},
     device : {"cuda"}, cuda_available : {FALSE},
     train_may_omit_loss : {FALSE},
     val_losses : {1..MaxVal}, val_may_omit_loss : {FALSE}]

InitRerun == InitSession(RerunSessions) /\ cache = CacheIdle

\* trainer.run(train_data, max_epochs) is called on the engine of a
\* completed run
TrainRunAgain ==
    /\ pc = "done"
    /\ Count(events, <<TRAIN, "started">>) < MaxRuns
    /\ pc' = "created"
    /\ UNCHANGED <<cfg, cache, trainer, validator, handler_locals, outside,
                   events, produced, returned, error>>

NextRerun == Next \/ TrainRunAgain

SpecRerun == InitRerun /\ [][NextRerun]_vars

\* ------------------------------------------------------- cache_dataset
\* int(x) of a non-negative x given as the fraction num / den
IntOf(num, den) == num \div den

\* math.ceil(x) of a non-negative x given as the fraction num / den
Ceil(num, den) == (num + den - 1) \div den

Max(a, b) == IF a >= b THEN a ELSE b

\* the period of the specification's wording, with the rounding up
LogFrequencyCeil(length, tenths) == Max(Ceil(length * tenths, 10), 1)

\* line 48: max(int(len(dataset) * log_frequency), 1), log_frequency in tenths
LogFrequency(length, tenths) == Max(IntOf(length * tenths, 10), 1)

\* Scenario A of the specification: 100 items, log_frequency 0.1
ScenarioA == [length |-> 100, tenths |-> 1]

\* the calls of cache_dataset: a dataset length and a log_frequency in (0, 1]
CacheCalls ==
    [length : 1..MaxLen, tenths : 1..10] \cup {ScenarioA}

\* cache_dataset(dataset, log_frequency) was called: lines 44-47 are done
CacheCalled(call) ==
    [pc |-> "called", length |-> call.length, tenths |-> call.tenths,
     log_frequency |-> 0, iteration |-> 0, visited |-> <<>>, logged |-> <<>>,
     cache_populated |-> FALSE, error |-> ""]

\* a fixed session for the train engine, which cache_dataset never touches
InitCache ==
    /\ InitSession({s \in DeviceSessions : s.device = "cpu" /\ ~s.cuda_available})
    /\ \E call \in CacheCalls : cache = CacheCalled(call)

\* the flag set as soon as the engine is set up, ahead of the pass
CacheSetUpFlagFirst ==
    /\ cache.pc = "called"
    /\ cache' = [cache EXCEPT
                    !.log_frequency = LogFrequency(cache.length, cache.tenths),
                    !.cache_populated = TRUE,
                    !.pc = "running"]
    /\ UNCHANGED <<cfg, pc, trainer, validator, handler_locals, outside,
                   events, produced, returned, error>>

\* lines 47-56: the engine, the period, the handler; cache.run starts
CacheSetUp ==
    /\ cache.pc = "called"
    /\ cache' = [cache EXCEPT
                    !.log_frequency = LogFrequency(cache.length, cache.tenths),
                    !.pc = "running"]
    /\ UNCHANGED <<cfg, pc, trainer, validator, handler_locals, outside,
                   events, produced, returned, error>>

\* one iteration of cache.run: the next item is read from the dataset,
\* ITERATION_STARTED(every=log_frequency) -> log_progress (lines 50-54),
\* dummy_process (lines 44-45)
CacheIteration ==
    /\ cache.pc = "running"
    /\ cache.iteration < cache.length
    /\ LET i == cache.iteration + 1
       IN  cache' = [cache EXCEPT
                       !.iteration = i,
                       !.visited = Append(@, i),
                       !.logged = IF i % cache.log_frequency = 0
                                  THEN Append(@, <<i, cache.length>>)
                                  ELSE @]
    /\ UNCHANGED <<cfg, pc, trainer, validator, handler_locals, outside,
                   events, produced, returned, error>>

\* reading the next item raises: cache.run (line 56) raises, line 57 is
\* not reached
CacheItemRaises ==
    /\ cache.pc = "running"
    /\ cache.iteration < cache.length
    /\ cache' = [cache EXCEPT !.pc = "failed", !.error = "ItemFailure"]
    /\ UNCHANGED <<cfg, pc, trainer, validator, handler_locals, outside,
                   events, produced, returned, error>>

\* the pass is over: cache.run returns, line 57 sets the flag
CacheReturn ==
    /\ cache.pc = "running"
    /\ cache.iteration = cache.length
    /\ cache' = [cache EXCEPT !.cache_populated = TRUE, !.pc = "returned"]
    /\ UNCHANGED <<cfg, pc, trainer, validator, handler_locals, outside,
                   events, produced, returned, error>>

NextCache ==
    \/ CacheSetUp
    \/ CacheIteration
    \/ CacheItemRaises
    \/ CacheReturn

SpecCache == InitCache /\ [][NextCache]_vars

\* cache.run (line 56) is a loop on one thread: as long as a step is left
\* to take, one is taken
SpecCacheFair == SpecCache /\ WF_vars(NextCache)

\* ================================================================ claims
\* ---------------------------------------------------- what is observed
LastEvent == IF events = <<>> THEN <<"", "">> ELSE Last(events)

\* the epochs whose appends (lines 191-209) have been done
EpochsMerged ==
    IF \/ pc \in {"created", "epoch"} /\ trainer.epoch = 0
       \/ pc \in {"iteration", "step", "epoch_completed", "v_created",
                  "v_epoch", "v_iteration", "v_step", "v_epoch_completed",
                  "merge"}
       \/ error = "StepFailure"
    THEN (IF trainer.epoch = 0 THEN 0 ELSE trainer.epoch - 1)
    ELSE trainer.epoch

\* no checkpoint loop (lines 235-244) is under way or was cut short
Settled == pc \notin {"save_model", "save_optimizer"} /\ error # "IOError"

ValLossHistory == Get(trainer.epoch_history, VALIDATION_LOSS, <<>>)

BEST_MODEL == <<BEST, "model">>
LATEST_MODEL == <<LATEST, "model">>

\* the epochs in which a slot's model file was written
WrittenIn(slot) == {save_log[i][2] : i \in {j \in 1..Len(save_log) : save_log[j][1] = slot}}

\* the step function of `engine` returned `key` at least once in epoch e
Produced(engine, e, key) == <<engine, e, key>> \in produced

ProducedInEach(engine, n, key) == \A e \in 1..n : Produced(engine, e, key)

\* ------------------------------------------------------------------ C1
\* C1 as stated: in a run with a validator, whenever best.model exists (and
\* some validation/loss value has been recorded) it was written at an epoch
\* that has a validation/loss entry, that entry is the minimum of the values
\* recorded so far, and it is the last such entry.
C1_BestIsMinOfAnyRun ==
    (/\ cfg.validator /\ Settled /\ Has(files, BEST_MODEL)
     /\ ValLossHistory # <<>>) =>
        LET e == files[BEST_MODEL].metadata.epoch
            h == ValLossHistory
            at == Cardinality({d \in 1..e : Produced(VALIDATION, d, "loss")})
        IN  /\ Produced(VALIDATION, e, "loss")
            /\ \A j \in 1..Len(h) : h[at] <= h[j]
            /\ \A j \in (at + 1)..Len(h) : h[at] < h[j]

\* C1 (amended): with a validator that produces a loss in every epoch,
\* whenever best.model exists it was written at the epoch whose
\* validation/loss entry is the minimum of all values recorded so far, the
\* latest such epoch on a tie.
C1_BestIsMin ==
    (/\ cfg.validator /\ Settled /\ Has(files, BEST_MODEL)
     /\ ProducedInEach(VALIDATION, EpochsMerged, "loss")) =>
        LET e == files[BEST_MODEL].metadata.epoch
            h == ValLossHistory
        IN  /\ Len(h) = EpochsMerged
            /\ e \in 1..Len(h)
            /\ \A j \in 1..Len(h) : h[e] <= h[j]
            /\ \A j \in (e + 1)..Len(h) : h[e] < h[j]

\* best.model was written in the last epoch but one and kept in the last
C1_Witness ==
    /\ cfg.validator /\ pc = "done"
    /\ ProducedInEach(VALIDATION, MaxEpochs, "loss")
    /\ Has(files, BEST_MODEL)
    /\ cfg.max_epochs = MaxEpochs
    /\ files[BEST_MODEL].metadata.epoch = MaxEpochs - 1
    /\ Len(ValLossHistory) = MaxEpochs

\* ------------------------------------------------------------------ C2
\* C2: with a validator that produces a loss in every epoch, "best" is
\* written in an epoch if and only if the validation/loss value of that
\* epoch is less than or equal to every value recorded earlier; for the
\* losses [0.9, 0.5, 0.6, 0.4, 0.4] it is written in epochs 1, 2, 4, 5 only.
C2_BestWrittenIffMinSoFar ==
    (/\ cfg.validator /\ Settled
     /\ ProducedInEach(VALIDATION, EpochsMerged, "loss")) =>
        LET h == ValLossHistory
        IN  /\ Len(h) = EpochsMerged
            /\ \A e \in 1..EpochsMerged :
                  (e \in WrittenIn(BEST)) <=> (\A j \in 1..(e - 1) : h[e] <= h[j])
            /\ (/\ Len(h) = Len(ScenarioC)
                 /\ \A i \in 1..Len(h) : h[i] = Scale * ScenarioC[i])
                  => WrittenIn(BEST) = {1, 2, 4, 5}

\* the run of Scenario C has ended
C2_Witness ==
    /\ pc = "done"
    /\ Len(ValLossHistory) = Len(ScenarioC)
    /\ \A i \in 1..Len(ScenarioC) : ValLossHistory[i] = Scale * ScenarioC[i]
    /\ WrittenIn(BEST) = {1, 2, 4, 5}

\* ------------------------------------------------------------------ C3
\* C3: once N >= 1 epochs have been merged (so also when
\* validation-completed fires for epoch N), every Epoch History key whose
\* metric was produced at least once in each of the N epochs has exactly N
\* entries.
C3_HistoryLength ==
    \A engine \in {TRAIN, VALIDATION} : \A key \in {"loss", "aux"} :
        (EpochsMerged >= 1 /\ ProducedInEach(engine, EpochsMerged, key)) =>
            /\ Has(trainer.epoch_history, <<engine, key>>)
            /\ Len(trainer.epoch_history[<<engine, key>>]) = EpochsMerged

\* validation-completed has fired for the last epoch; train/aux was produced
\* in every epoch, validation/loss was not
C3_Witness ==
    /\ LastEvent = <<TRAIN, "validation_completed">>
    /\ error = ""
    /\ trainer.epoch = MaxEpochs /\ cfg.max_epochs = MaxEpochs
    /\ ProducedInEach(TRAIN, MaxEpochs, "aux")
    /\ Len(trainer.epoch_history[<<TRAIN, "aux">>]) = MaxEpochs
    /\ ~ProducedInEach(VALIDATION, MaxEpochs, "loss")
    /\ Len(ValLossHistory) = MaxEpochs - 1

\* ------------------------------------------------------------------ C4
\* C4: when the train step raises in epoch k the run ends with that error:
\* Epoch History holds the entries of epochs 1..k-1 only, the
\* epoch-completed handler has not run for epoch k (no validation pass, no
\* checkpoint write, no validation-completed), run-completed is not fired
\* and no further step is taken.
C4_StepFailure ==
    (error = "StepFailure") =>
        LET k == trainer.epoch
        IN  /\ \A q \in DOMAIN trainer.epoch_history :
                /\ Len(trainer.epoch_history[q]) <= k - 1
                /\ ProducedInEach(q[1], k - 1, q[2])
                      => Len(trainer.epoch_history[q]) = k - 1
            /\ ProducedInEach(TRAIN, k - 1, "aux") /\ k > 1
                  => Has(trainer.epoch_history, <<TRAIN, "aux">>)
            /\ Count(events, <<TRAIN, "epoch_completed">>) = k - 1
            /\ Count(events, <<TRAIN, "validation_started">>) = k - 1
            /\ Count(events, <<TRAIN, "validation_completed">>) = k - 1
            /\ Count(events, <<VALIDATION, "started">>)
                  = (IF cfg.validator THEN k - 1 ELSE 0)
            /\ Count(events, <<TRAIN, "completed">>) = 0
            /\ k \notin WrittenIn(LATEST) \cup WrittenIn(BEST)
            /\ \A f \in DOMAIN files : files[f].written < k
            /\ ~ENABLED Next

\* the step raised on the second iteration of epoch 2
C4_Witness ==
    /\ error = "StepFailure"
    /\ trainer.epoch = 2
    /\ trainer.iteration = EpochLength + 2
    /\ trainer.iter_history # EmptyDict
    /\ Len(trainer.epoch_history[<<TRAIN, "aux">>]) = 1

\* ------------------------------------------------------------------ C5
\* C5: with no validation engine is_best is true in every epoch: after N
\* epochs "latest" and "best" have each been written N times (once per
\* epoch), Epoch History has no validation/ key, and train/loss has length
\* N (the train step reporting a loss in each epoch).
C5_NoValidator ==
    (~cfg.validator) =>
        /\ is_best
        /\ \A q \in DOMAIN trainer.epoch_history : q[1] # VALIDATION
        /\ Settled =>
            /\ Count(save_log, <<LATEST, EpochsMerged>>)
                  = (IF EpochsMerged >= 1 THEN 1 ELSE 0)
            /\ WrittenIn(LATEST) = 1..EpochsMerged
            /\ WrittenIn(BEST) = 1..EpochsMerged
            /\ Len(save_log) = 2 * EpochsMerged
            /\ ProducedInEach(TRAIN, EpochsMerged, "loss") /\ EpochsMerged >= 1
                  => Len(trainer.epoch_history[TRAIN_LOSS]) = EpochsMerged

\* three epochs without a validator, the train step reporting a loss in each
C5_Witness ==
    /\ ~cfg.validator /\ pc = "done" /\ cfg.max_epochs = MaxEpochs
    /\ ProducedInEach(TRAIN, MaxEpochs, "loss")
    /\ Len(trainer.epoch_history[TRAIN_LOSS]) = MaxEpochs
    /\ WrittenIn(BEST) = 1..MaxEpochs
    /\ Len(save_log) = 2 * MaxEpochs

\* ------------------------------------------------------------------ C6
\* the entries Epoch History is due under <<engine, key>> after n epochs
EntriesDue(engine, key, n) ==
    Cardinality({e \in 1..n : Produced(engine, e, key)})

AppendsDone ==
    \A engine \in {TRAIN, VALIDATION} : \A key \in {"loss", "aux"} :
        Len(Get(trainer.epoch_history, <<engine, key>>, <<>>))
            = EntriesDue(engine, key, trainer.epoch)

HandlerRunsValidatorNext ==
    LastEvent = (IF cfg.validator THEN <<VALIDATION, "completed">>
                 ELSE <<TRAIN, "validation_started">>)

\* what must surround the i-th event of the log ev
C6_OrderAt(ev, i) ==
    /\ ev[i] = <<TRAIN, "epoch_completed">> /\ i < Len(ev)
          => ev[i + 1] = <<TRAIN, "validation_started">>
    /\ ev[i] = <<TRAIN, "validation_started">>
          => ev[i - 1] = <<TRAIN, "epoch_completed">>
    /\ ev[i] = <<TRAIN, "validation_started">> /\ i < Len(ev)
          => ev[i + 1] = (IF cfg.validator
                              THEN <<VALIDATION, "started">>
                              ELSE <<TRAIN, "validation_completed">>)
    /\ ev[i][1] = VALIDATION
          => cfg.validator
    /\ ev[i] = <<VALIDATION, "started">>
          => ev[i - 1] = <<TRAIN, "validation_started">>
    /\ (/\ ev[i][1] = VALIDATION /\ i < Len(ev)
        /\ ev[i] # <<VALIDATION, "completed">>)
          => ev[i + 1][1] = VALIDATION
    /\ ev[i] = <<VALIDATION, "completed">>
          => /\ ev[i - 3 - 2 * ValLength] = <<VALIDATION, "started">>
             /\ \A j \in (i - 2 - 2 * ValLength)..(i - 1) :
                    ev[j] # <<VALIDATION, "started">>
    /\ ev[i] = <<VALIDATION, "completed">> /\ i < Len(ev)
          => ev[i + 1] = <<TRAIN, "validation_completed">>
    /\ ev[i] = <<TRAIN, "validation_completed">>
          => ev[i - 1] = (IF cfg.validator
                              THEN <<VALIDATION, "completed">>
                              ELSE <<TRAIN, "validation_started">>)
    /\ ev[i] = <<TRAIN, "validation_completed">> /\ i < Len(ev)
          => ev[i + 1] \in {<<TRAIN, "epoch_started">>,
                                <<TRAIN, "completed">>}
    /\ ev[i] = <<TRAIN, "epoch_started">>
          => ev[i - 1] \in {<<TRAIN, "started">>,
                                <<TRAIN, "validation_completed">>}
    /\ ev[i] = <<TRAIN, "completed">>
          => ev[i - 1] = <<TRAIN, "validation_completed">>

\* validation-started and validation-completed fire once per epoch
C6_Counts ==
    /\ Count(events, <<TRAIN, "validation_started">>)
          = Count(events, <<TRAIN, "epoch_completed">>)
    /\ Count(events, <<TRAIN, "validation_completed">>)
          \in {Count(events, <<TRAIN, "epoch_completed">>) - 1,
               Count(events, <<TRAIN, "epoch_completed">>)}
    /\ LastEvent \in {<<TRAIN, "validation_completed">>, <<TRAIN, "completed">>}
          => /\ Count(events, <<TRAIN, "validation_started">>) = trainer.epoch
             /\ Count(events, <<TRAIN, "validation_completed">>) = trainer.epoch
             /\ Count(events, <<VALIDATION, "completed">>)
                   = (IF cfg.validator THEN trainer.epoch ELSE 0)

C6_OrderStep ==
    /\ trainer'.epoch_history # trainer.epoch_history
          => HandlerRunsValidatorNext /\ events' = events
    /\ files' # files
          => HandlerRunsValidatorNext /\ events' = events /\ AppendsDone
    /\ events' = Append(events, <<TRAIN, "validation_completed">>)
          => /\ AppendsDone
             /\ Has(files, LATEST_MODEL) /\ Has(files, <<LATEST, "optimizer">>)
             /\ files[LATEST_MODEL].written = trainer.epoch
             /\ files[<<LATEST, "optimizer">>].written = trainer.epoch
             /\ is_best => /\ Has(files, BEST_MODEL)
                           /\ files[BEST_MODEL].written = trainer.epoch

\* C6: in every training epoch the order is: train epoch-completed,
\* validation-started, the validation engine's whole pass (run-started to
\* run-completed), the appends to Epoch History, the checkpoint writes,
\* validation-completed, and only then the next train epoch-started or train
\* run-completed; validation-started and validation-completed fire once per
\* completed training epoch.
C6_Order ==
    [][/\ C6_OrderStep
       /\ \A i \in Len(events)..Len(events') : i >= 1 => C6_OrderAt(events', i)
       /\ C6_Counts']_vars

\* a whole run with a validator: every epoch went through the sequence
C6_Witness ==
    /\ cfg.validator /\ pc = "done" /\ cfg.max_epochs = MaxEpochs
    /\ Count(events, <<TRAIN, "validation_completed">>) = MaxEpochs
    /\ Count(events, <<VALIDATION, "completed">>) = MaxEpochs
    /\ Len(save_log) > MaxEpochs

\* ------------------------------------------------------------------ C7
\* C7: when the validator's pass of an epoch produced no loss, is_best is
\* true and "best" is written in that epoch, whatever was recorded earlier.
C7_NoLossMeansBest ==
    (/\ cfg.validator /\ pc \in {"save_model", "save_optimizer", "finish"}
     /\ ~Produced(VALIDATION, trainer.epoch, "loss")) =>
        /\ is_best
        /\ pc = "finish" => trainer.epoch \in WrittenIn(BEST)

\* ------------------------------------------------------------------ C8
\* C8: at every completed epoch "latest" is overwritten, whatever is_best
\* is, with metadata taken after the epoch's appends: the stored epoch is
\* the epoch just completed and the stored Epoch History holds that epoch's
\* entries (train/loss has as many entries as the stored epoch number when
\* the train step reported a loss in every epoch).
C8_LatestEveryEpoch ==
    (/\ EpochsMerged >= 1 /\ ~(pc = "save_model" /\ path_idx = 1)
     /\ error # "IOError") =>
        /\ Has(files, LATEST_MODEL)
        /\ WrittenIn(LATEST) = 1..EpochsMerged
        /\ LET m == files[LATEST_MODEL].metadata
           IN  /\ files[LATEST_MODEL].written = EpochsMerged
               /\ m.epoch = EpochsMerged
               /\ m.epoch_history = trainer.epoch_history
               /\ \A engine \in {TRAIN, VALIDATION} : \A key \in {"loss", "aux"} :
                    Len(Get(m.epoch_history, <<engine, key>>, <<>>))
                        = EntriesDue(engine, key, m.epoch)
               /\ ProducedInEach(TRAIN, m.epoch, "loss")
                    => Len(m.epoch_history[TRAIN_LOSS]) = m.epoch

\* epoch 2 was not the best one: "latest" is written, "best" is not
C8_Witness ==
    /\ pc = "finish" /\ ~is_best /\ trainer.epoch = 2
    /\ files[LATEST_MODEL].metadata.epoch = 2
    /\ files[BEST_MODEL].metadata.epoch = 1
    /\ Len(Get(files[LATEST_MODEL].metadata.epoch_history,
               TRAIN_LOSS, <<>>)) = 2
    /\ Len(Get(files[LATEST_MODEL].metadata.epoch_history,
               VALIDATION_LOSS, <<>>)) = 2

\* ------------------------------------------------------------------ C9
\* C9: on each engine Iteration History is empty right after every
\* epoch-started and holds at least one value right after every
\* iteration-completed, the first of the epoch included.
C9_IterHistory ==
    /\ LastEvent = <<TRAIN, "epoch_started">>
          => trainer.iter_history = EmptyDict
    /\ LastEvent = <<VALIDATION, "epoch_started">>
          => validator.iter_history = EmptyDict
    /\ LastEvent = <<TRAIN, "iteration_completed">>
          => /\ trainer.iter_history # EmptyDict
             /\ \A key \in DOMAIN trainer.iter_history :
                    /\ IterList(trainer, key) # <<>>
                    /\ Len(IterList(trainer, key))
                          <= trainer.iteration
                                - (trainer.epoch - 1) * EpochLength
    /\ LastEvent = <<VALIDATION, "iteration_completed">>
          => /\ validator.iter_history # EmptyDict
             /\ \A key \in DOMAIN validator.iter_history :
                    /\ IterList(validator, key) # <<>>
                    /\ Len(IterList(validator, key)) <= validator.iteration

\* right after the first iteration-completed of the second training epoch
C9_Witness ==
    /\ LastEvent = <<TRAIN, "iteration_completed">>
    /\ trainer.epoch = 2
    /\ trainer.iteration = EpochLength + 1
    /\ Has(trainer.iter_history, "loss")
    /\ IterList(trainer, "loss") = <<trainer.iteration>>

\* ----------------------------------------------------------------- C10
\* C10: log_epoch_to_stdout never ends the run on a missing metric key: on
\* every validation-completed it logs a summary, with the sentinel for a
\* missing key.
C10_ReporterNeverAborts ==
    /\ error # "KeyError"
    /\ cfg.stdout => Len(stdout) = Count(events, <<TRAIN, "validation_completed">>)

\* ----------------------------------------------------------------- C11
\* the write of line 242 for the current path went through in this epoch, so
\* the error came from the optimizer write of lines 243-244
ModelWriteDone ==
    save_log # <<>> /\ Last(save_log) = <<output_paths[path_idx], trainer.epoch>>

\* C11: when a model or optimizer write raises an I/O error in epoch k the
\* run ends with that error: the paths after the failing one are not written
\* in epoch k (nor is the optimizer file next to a model file that failed),
\* validation-completed is not fired for epoch k, so no summary is logged and
\* no scalar is exported for it, no further epoch starts, run-completed is
\* not fired and no further step is taken.
C11_PersistenceFailure ==
    (error = "IOError") =>
        LET k == trainer.epoch
        IN  /\ pc = "failed"
            /\ \A j \in (path_idx + 1)..Len(output_paths) :
                  \A kind \in {"model", "optimizer"} :
                      Has(files, <<output_paths[j], kind>>)
                          => files[<<output_paths[j], kind>>].written < k
            /\ (~ModelWriteDone /\ Has(files, <<output_paths[path_idx], "optimizer">>))
                  => files[<<output_paths[path_idx], "optimizer">>].written < k
            /\ Count(events, <<TRAIN, "validation_started">>) = k
            /\ Count(events, <<TRAIN, "validation_completed">>) = k - 1
            /\ Len(stdout) <= k - 1
            /\ \A point \in tensorboard : point[3] < k
            /\ Count(events, <<TRAIN, "epoch_started">>) = k
            /\ Count(events, <<TRAIN, "completed">>) = 0
            /\ ~ENABLED Next

\* the write of latest.model failed in epoch 2 with "best" still to be
\* written, after epoch 1 was saved in full
C11_Witness ==
    /\ error = "IOError"
    /\ trainer.epoch = 2
    /\ path_idx = 1
    /\ output_paths = <<LATEST, BEST>>
    /\ ~ModelWriteDone
    /\ Has(files, <<BEST, "optimizer">>)
    /\ files[<<BEST, "optimizer">>].written = 1

\* ----------------------------------------------------------------- C12
\* the scalars exported under `key` with step `epoch`
PointsAt(key, epoch) == {point \in tensorboard : point[1] = key /\ point[3] = epoch}

\* C12: right after every validation-completed, log_to_tensorboard has
\* written exactly one scalar per key of Epoch History, the last value of the
\* key with the current epoch as its step; at the end of a run of N epochs
\* a key with N entries has points at the steps 1..N.
C12_ExportOnEveryValidationCompleted ==
    /\ LastEvent = <<TRAIN, "validation_completed">> =>
          \A key \in DOMAIN trainer.epoch_history :
              PointsAt(key, trainer.epoch)
                  = {<<key, Last(trainer.epoch_history[key]), trainer.epoch>>}
    /\ pc = "done" =>
          \A key \in DOMAIN trainer.epoch_history :
              Len(trainer.epoch_history[key]) = trainer.max_epochs
                  => \A e \in 1..trainer.max_epochs : PointsAt(key, e) # {}

\* ----------------------------------------------------------------- C13
\* prepare_batch did to `batch` what lines 99-104 say, with the default
\* device as the target: `item` is the dataset's item the batch was made from
OnDefaultDevice(batch, item) ==
    /\ DOMAIN batch = DOMAIN item
    /\ \A key \in DOMAIN item :
          IF item[key].tensor
          THEN /\ batch[key].tensor
               /\ batch[key].device = "cpu"
               /\ batch[key].dtype = "float32"
          ELSE batch[key] = item[key]

\* C13: with "cuda" requested and no accelerator available, setting up the
\* engines does not raise (the resolved device is the default one and the
\* run starts without an error), and right after every iteration-started of
\* either engine every tensor entry of the batch is on the default device,
\* the batch has the keys of the dataset's item and every non-tensor entry
\* is the item's.
C13_DeviceFallback ==
    (cfg.device = "cuda" /\ ~cfg.cuda_available) =>
        /\ Device = "cpu"
        /\ pc = "created" => error = ""
        /\ LastEvent = <<TRAIN, "iteration_started">> =>
              OnDefaultDevice(trainer.batch,
                  TrainData[trainer.iteration
                                - (trainer.epoch - 1) * EpochLength])
        /\ LastEvent = <<VALIDATION, "iteration_started">> =>
              OnDefaultDevice(validator.batch, ValData[validator.iteration])

\* the validator's first batch was prepared with "cuda" requested and no
\* accelerator: its int64 tensor is a float32 tensor on the default device
C13_Witness ==
    /\ cfg.device = "cuda" /\ ~cfg.cuda_available
    /\ LastEvent = <<VALIDATION, "iteration_started">>
    /\ ValData[validator.iteration].mix.dtype = "int64"
    /\ validator.batch.mix = [tensor |-> TRUE, dtype |-> "float32", device |-> "cpu"]
    /\ validator.batch.name = ValData[validator.iteration].name

\* ----------------------------------------------------------------- C14
\* the numbers of the items at which a progress line was logged
LoggedAt == {cache.logged[j][1] : j \in DOMAIN cache.logged}

\* the multiples of `period` among the items 1..n
MultiplesUpTo(period, n) == {i \in 1..n : i % period = 0}

\* C14: for every length L >= 1 and frequency f in (0, 1] the cache warmer
\* logs at the items that are multiples of max(ceil(L * f), 1) and at no
\* other item; with 100 items and f = 0.1 it has logged 10 lines at the end.
C14_LogEveryCeil ==
    cache.pc \in {"running", "returned"} =>
        /\ LoggedAt = MultiplesUpTo(LogFrequencyCeil(cache.length, cache.tenths),
                                    cache.iteration)
        /\ Len(cache.logged) = Cardinality(LoggedAt)
        /\ (cache.pc = "returned" /\ cache.length = ScenarioA.length
               /\ cache.tenths = ScenarioA.tenths)
              => Len(cache.logged) = 10

\* C14 as amended: the period is max(int(L * f), 1), the product rounded
\* down: the cache warmer logs at the multiples of that period and at no
\* other item, one line each; with 100 items and f = 0.1 it has logged
\* 10 lines at the end.
C14_LogEveryFloor ==
    cache.pc \in {"running", "returned"} =>
        LET whole == (cache.length * cache.tenths) \div 10
            period == IF whole >= 1 THEN whole ELSE 1
        IN  /\ LoggedAt = MultiplesUpTo(period, cache.iteration)
            /\ Len(cache.logged) = Cardinality(LoggedAt)
            /\ \A j \in DOMAIN cache.logged : cache.logged[j][2] = cache.length
            /\ (cache.pc = "returned" /\ cache.length = ScenarioA.length
                   /\ cache.tenths = ScenarioA.tenths)
                  => /\ Len(cache.logged) = 10
                     /\ LoggedAt = {10 * n : n \in 1..10}

\* 2 items with f = 0.6: the product 1.2 rounds down to 1 and up to 2, and a
\* line was logged at item 1 and at item 2
C14_Witness ==
    /\ cache.pc = "returned"
    /\ cache.length = 2 /\ cache.tenths = 6
    /\ cache.logged = << <<1, 2>>, <<2, 2>> >>

\* ----------------------------------------------------------------- C15
\* C15: for every length L >= 1 the cache warmer reads the items 1, 2, ...
\* in order, each once; when it returns it has read all L of them and the
\* flag is set; the flag is set in no state before the return, so it is
\* unset after a read that raised; and every call ends, by returning or by
\* raising.
C15_SinglePass ==
    /\ [](cache.pc # "called" =>
            /\ cache.visited = [j \in 1..cache.iteration |-> j]
            /\ cache.iteration <= cache.length
            /\ cache.pc = "returned" =>
                  /\ cache.visited = [j \in 1..cache.length |-> j]
                  /\ cache.cache_populated
            /\ cache.cache_populated => cache.pc = "returned"
            /\ cache.pc = "failed" =>
                  /\ ~cache.cache_populated
                  /\ Len(cache.visited) < cache.length)
    /\ <>(cache.pc \in {"returned", "failed"})

\* a dataset of one item was read once and the flag is set
C15_Witness ==
    /\ cache.pc = "returned"
    /\ cache.length = 1
    /\ cache.visited = <<1>>
    /\ cache.cache_populated

\* reading the last item of a longer dataset raised: the flag is unset
C15_WitnessRaised ==
    /\ cache.pc = "failed"
    /\ cache.length = MaxLen
    /\ Len(cache.visited) = MaxLen - 1
    /\ ~cache.cache_populated

\* ----------------------------------------------------------------- C16
\* the values the step function of `engine` returned under `key` during the
\* train engine's epoch `e`, in the order of the iterations
ValuesOf(engine, e, key) ==
    LET calls == SelectSeq(returned,
                     LAMBDA r : r[1] = engine /\ r[2] = e /\ Has(r[3], key))
    IN  [j \in 1..Len(calls) |-> calls[j][3][key]]

\* C16: whenever Epoch History changes under a key, one entry was appended
\* to it, by the epoch-completed handler, and that entry is the mean over
\* the values the key's engine returned under the key during the current
\* epoch (the train iterations of the epoch, or the validation pass run
\* inside it) and over nothing else; and the handler appends such an entry
\* for every key that has a value in the epoch.
C16_OnePassMeans ==
    [][/\ \A q \in DOMAIN trainer'.epoch_history :
            LET old == Get(trainer.epoch_history, q, <<>>)
                new == trainer'.epoch_history[q]
                values == ValuesOf(q[1], trainer.epoch, q[2])
            IN  new # old =>
                    /\ pc = "merge"
                    /\ values # <<>>
                    /\ new = Append(old, (Scale * Sum(values)) \div Len(values))
       /\ pc = "merge" =>
            \A q \in {TRAIN, VALIDATION} \X {"loss", "aux"} :
                ValuesOf(q[1], trainer.epoch, q[2]) # <<>>
                    => Len(Get(trainer'.epoch_history, q, <<>>))
                          = Len(Get(trainer.epoch_history, q, <<>>)) + 1
      ]_vars

\* epoch 2 has just been merged: the train losses were 1, 2 in epoch 1 and
\* 3, 4 in epoch 2, the validation losses 2 then 1, and each entry is the
\* mean of its own epoch
C16_Witness ==
    /\ pc = "save_model" /\ path_idx = 1
    /\ trainer.epoch = 2
    /\ ValuesOf(TRAIN, 1, "loss") = <<1, 2>>
    /\ ValuesOf(TRAIN, 2, "loss") = <<3, 4>>
    /\ ValuesOf(VALIDATION, 1, "loss") = <<2>>
    /\ ValuesOf(VALIDATION, 2, "loss") = <<1>>
    /\ Has(trainer.epoch_history, TRAIN_LOSS)
    /\ Has(trainer.epoch_history, VALIDATION_LOSS)
    /\ trainer.epoch_history[TRAIN_LOSS]
          = <<(Scale * 3) \div 2, (Scale * 7) \div 2>>
    /\ trainer.epoch_history[VALIDATION_LOSS] = <<Scale * 2, Scale * 1>>

\* ----------------------------------------------------------------- C17
\* every entry past_iter_history[key] of `st` has within the run is still
\* there, with the same content, in `st2`
EntriesKept(st, st2) ==
    \A key \in DOMAIN st.past_iter_history :
        \A i \in 1..Len(st.past_iter_history[key]) :
            (Has(st2.past_iter_history, key)
                /\ Len(st2.past_iter_history[key]) >= i)
                    => PastList(st2, key, i) = PastList(st, key, i)

\* C17: an entry of Past Iteration History never changes once it has been
\* appended (not in a later iteration of the epoch, not at the reset of
\* Iteration History, not in a later epoch), and the entry an iteration of
\* the train engine appends is the sequence of the values of the epoch up
\* to that iteration.
C17_PastEntriesAreSnapshots ==
    [][/\ EntriesKept(trainer, trainer')
       /\ EntriesKept(validator, validator')
       /\ \A key \in DOMAIN trainer'.past_iter_history :
            LET n == Len(trainer'.past_iter_history[key])
            IN  n = Len(Get(trainer.past_iter_history, key, <<>>)) + 1
                    => PastList(trainer', key, n)
                          = ValuesOf(TRAIN, trainer.epoch, key)'
      ]_vars

\* ----------------------------------------------------------------- C18
\* the number of step calls of `engine` whose output had `key`, over the
\* train engine's epochs in `epochs`
CallsWith(engine, epochs, key) ==
    Len(SelectSeq(returned,
            LAMBDA r : r[1] = engine /\ r[2] \in epochs /\ Has(r[3], key)))

\* in `st`, each Iteration History list is non-empty and is the last entry
\* of Past Iteration History under its key
IterIsLastOfPast(st) ==
    \A key \in DOMAIN st.iter_history :
        /\ IterList(st, key) # <<>>
        /\ Has(st.past_iter_history, key)
        /\ st.past_iter_history[key] # <<>>
        /\ PastList(st, key, Len(st.past_iter_history[key])) = IterList(st, key)

\* add_to_iter_history took `st` to `st2` on the output `out`: under every
\* key of `out` the value was appended to Iteration History and one entry,
\* the updated Iteration History list, to Past Iteration History; under the
\* other keys nothing changed
AppendedOnce(st, st2, out) ==
    /\ DOMAIN st2.iter_history = DOMAIN st.iter_history \cup DOMAIN out
    /\ DOMAIN st2.past_iter_history = DOMAIN st.past_iter_history \cup DOMAIN out
    /\ \A key \in DOMAIN out :
          /\ IterList(st2, key)
                = Append(IF Has(st.iter_history, key) THEN IterList(st, key)
                         ELSE <<>>, out[key])
          /\ Len(st2.past_iter_history[key])
                = Len(Get(st.past_iter_history, key, <<>>)) + 1
          /\ PastList(st2, key, Len(st2.past_iter_history[key]))
                = IterList(st2, key)
    /\ \A key \in DOMAIN st.iter_history \ DOMAIN out :
          IterList(st2, key) = IterList(st, key)
    /\ \A key \in DOMAIN st.past_iter_history \ DOMAIN out :
          Len(st2.past_iter_history[key]) = Len(st.past_iter_history[key])

\* C18: every iteration-completed of either engine appends, under each key
\* of the output, the value to Iteration History and exactly one entry,
\* equal to the updated Iteration History list, to Past Iteration History;
\* in every state each Iteration History list is non-empty and equals the
\* last entry of Past Iteration History under its key, and the number of
\* entries under a key is the number of iterations completed in the run
\* (the train engine's run; the validator's latest run) whose output had
\* the key. (A step that changes neither engine's state nor adds an
\* iteration leaves all of this as it was.)
C18_AppendToBoth ==
    [][/\ (pc = "step" /\ pc' # "failed") =>
             AppendedOnce(trainer, trainer', trainer'.output)
       /\ pc = "v_step" =>
             AppendedOnce(validator, validator', validator'.output)
       /\ (pc = "created" \/ <<trainer, validator, returned>>'
                                 # <<trainer, validator, returned>>) =>
             /\ IterIsLastOfPast(trainer')
             /\ IterIsLastOfPast(validator')
             /\ \A key \in {"loss", "aux"} :
                   /\ Len(Get(trainer'.past_iter_history, key, <<>>))
                         = CallsWith(TRAIN, 1..cfg.max_epochs, key)'
                   /\ Len(Get(validator'.past_iter_history, key, <<>>))
                         = CallsWith(VALIDATION,
                                     {Count(events, <<VALIDATION, "started">>)},
                                     key)'
      ]_vars

\* the second iteration of epoch 2 is over: the list of the epoch's two
\* losses is Iteration History's and the fourth entry of Past Iteration
\* History
C18_Witness ==
    /\ LastEvent = <<TRAIN, "iteration_completed">>
    /\ trainer.epoch = 2
    /\ trainer.output = ("loss" :> 4) @@ ("aux" :> 1)
    /\ Has(trainer.iter_history, "loss")
    /\ IterList(trainer, "loss") = <<3, 4>>
    /\ Len(trainer.past_iter_history["loss"]) = 4
    /\ PastList(trainer, "loss", 4) = <<3, 4>>

\* ----------------------------------------------------------------- C19
\* the slot is empty, or holds a model file and an optimizer file that were
\* both written in full, in the same epoch, after the same number of steps
SlotConsistent(slot) ==
    LET model == <<slot, "model">>
        optimizer == <<slot, "optimizer">>
    IN  (Has(files, model) \/ Has(files, optimizer)) =>
            /\ Has(files, model) /\ Has(files, optimizer)
            /\ files[model].complete /\ files[optimizer].complete
            /\ files[model].written = files[optimizer].written
            /\ files[model].weights = files[optimizer].state

\* C19: in every state the checkpoint loop has left behind, whether it ran
\* to its end or was ended by a write that failed, "latest" and "best" are
\* each consistent: model and optimizer of one epoch, none of them cut
\* short. (The states between the two writes of a path, inside the loop, are
\* not counted against the claim.)
C19_SlotsConsistent ==
    pc \notin {"save_model", "save_optimizer"} =>
        /\ SlotConsistent(LATEST)
        /\ SlotConsistent(BEST)

\* ----------------------------------------------------------------- C20
\* every list of Epoch History in `st` is, under the same key, a prefix of
\* the list in `st2`
GrowsOnly(st, st2) ==
    \A q \in DOMAIN st.epoch_history :
        /\ Has(st2.epoch_history, q)
        /\ Len(st.epoch_history[q]) <= Len(st2.epoch_history[q])
        /\ SubSeq(st2.epoch_history[q], 1, Len(st.epoch_history[q]))
              = st.epoch_history[q]

\* C20: the train engine's Epoch History is never reset and only grows: in
\* every step, also the steps of a second run of the same engine, each list
\* of the earlier state is a prefix of the list under the same key in the
\* later state.
C20_NeverReset ==
    [][GrowsOnly(trainer, trainer')]_vars

\* C20 as amended: within a run Epoch History only grows, each list a
\* prefix of what it is in the next state; the run-started of every run
\* (book_keeping) leaves it empty, whatever an earlier run had recorded.
C20_GrowsWithinRun ==
    [][IF pc = "created"
       THEN trainer'.epoch_history = EmptyDict
       ELSE GrowsOnly(trainer, trainer')]_vars

\* the first epoch of the second run has been merged: Epoch History holds
\* one entry a key, two epochs of the first run having been recorded and
\* saved before
C20_Witness ==
    /\ Count(events, <<TRAIN, "started">>) = 2
    /\ Count(events, <<TRAIN, "completed">>) = 1
    /\ 2 \in WrittenIn(LATEST)
    /\ pc = "save_model" /\ path_idx = 1
    /\ trainer.epoch = 1
    /\ Has(trainer.epoch_history, TRAIN_LOSS)
    /\ Len(trainer.epoch_history[TRAIN_LOSS]) = 1

====
